---- MODULE Spec2Model ----
\* jimmy: compilation of a declarative installation description into a
\* two-stage shell script (src/src/data.rs, src/src/install.rs).
\*
\* Strings the code only compares for equality or emptiness (hostname, format,
\* size, bootloader, locale, ...) are TLA+ strings.  Strings the code looks
\* into (disk paths, mount points, device paths: starts_with, regular
\* expressions, byte-wise sort) are sequences of one-character strings.
\* Option<T> is a sequence of length at most one: <<>> is None, <<v>> is Some(v).
\* A generated script is a sequence of sections, each the arguments of the
\* format!/echo_status call that produces it.
EXTENDS Integers, Sequences, FiniteSets, TLC

VARIABLES raw, pc, opts, script, err, diag

vars == <<raw, pc, opts, script, err, diag>>

-----------------------------------------------------------------------------
\* Bounds of the model: the longest partition list of each input family.

MaxPartsLayout == 3
MaxPartsDisks == 3
MaxPartsBoot == 2
MaxPartsValidate == 2
MaxPartsScript == 2
MaxPartsMounts == 3

-----------------------------------------------------------------------------
\* Characters and strings

Digits == <<"0", "1", "2", "3", "4", "5", "6", "7", "8", "9">>

IsDigit(c) == \E i \in 1..Len(Digits) : Digits[i] = c

\* The characters of the model in increasing byte order.
ByteOrder ==
    <<"/">> \o Digits \o
    <<"a", "b", "d", "e", "f", "h", "i", "l", "m", "n", "o", "p", "r", "s", "t", "v">>

ByteOf(c) == CHOOSE i \in 1..Len(ByteOrder) : ByteOrder[i] = c

\* Ord for String: byte-wise lexicographic, a proper prefix is smaller.
RECURSIVE StrLess(_, _)
StrLess(a, b) ==
    IF b = <<>> THEN FALSE
    ELSE IF a = <<>> THEN TRUE
    ELSE IF Head(a) = Head(b) THEN StrLess(Tail(a), Tail(b))
    ELSE ByteOf(Head(a)) < ByteOf(Head(b))

\* str::starts_with
StartsWith(s, prefix) ==
    /\ Len(prefix) <= Len(s)
    /\ SubSeq(s, 1, Len(prefix)) = prefix

\* u32::to_string: the decimal digits of n, no leading zeros.
RECURSIVE to_string(_)
to_string(n) ==
    IF n < 10 THEN <<Digits[n + 1]>>
    ELSE to_string(n \div 10) \o <<Digits[(n % 10) + 1]>>

\* Option::unwrap_or
UnwrapOr(o, d) == IF o = <<>> THEN d ELSE o[1]

-----------------------------------------------------------------------------
\* Results of operations that may panic

Ok(v, w) == [ok |-> TRUE, val |-> <<v>>, err |-> "", warn |-> w]

Panic(msg, w) == [ok |-> FALSE, val |-> <<>>, err |-> msg, warn |-> w]

-----------------------------------------------------------------------------
\* data.rs: validation

WarnFormat == "warning: partition format not specified; defaulting to 'ext4'"
WarnMount == "warning: partition mount not specified; it's not going to be mounted"
WarnLocales == "warning: locales not specified; defaulting to 'en_US.UTF-8'"

ErrZoneinfo == "invalid zoneinfo"
ErrHostname == "error: hostname not specified"
ErrBootloader == "error: no bootloader specified"
ErrPartitions == "error: no partitions specified"
ErrRelativeMount == "mount point is a relative path"
ErrDisk == "error: partition disk not specified"
ErrUsername == "No username specified"

\* The timezone database: the files under /usr/share/zoneinfo, keyed by
\* region and optional city.
ZoneinfoFiles == {<<"Europe", <<"London">>>>, <<"UTC", <<>>>>}

is_file(path) == path \in ZoneinfoFiles

is_valid_zoneinfo(region, city) == is_file(<<UnwrapOr(region, ""), city>>)

\* The conversion of a partition with the disk looked at before the mount point.
PartitionFrom_disk_first(p) ==
    LET noFormat == p.format = <<>> \/ p.format[1] = ""
        format == IF noFormat THEN "ext4" ELSE p.format[1]
        noMount == p.mount = <<>> \/ p.mount[1] = <<>>
        w == (IF noFormat THEN <<WarnFormat>> ELSE <<>>)
             \o (IF noMount THEN <<WarnMount>> ELSE <<>>)
    IN  IF p.disk = <<>>
        THEN Panic(ErrDisk, w)
        ELSE IF ~noMount /\ ~StartsWith(p.mount[1], <<"/">>)
        THEN Panic(ErrRelativeMount, w)
        ELSE Ok([format |-> format,
                 disk |-> p.disk[1],
                 size |-> UnwrapOr(p.size, ""),
                 mount |-> UnwrapOr(p.mount, <<>>)], w)

\* impl From<ParsedPartition> for Partition
PartitionFrom(p) ==
    LET noFormat == p.format = <<>> \/ p.format[1] = ""
        format == IF noFormat THEN "ext4" ELSE p.format[1]
        noMount == p.mount = <<>> \/ p.mount[1] = <<>>
        w == (IF noFormat THEN <<WarnFormat>> ELSE <<>>)
             \o (IF noMount THEN <<WarnMount>> ELSE <<>>)
    IN  IF ~noMount /\ ~StartsWith(p.mount[1], <<"/">>)
        THEN Panic(ErrRelativeMount, w)
        ELSE IF p.disk = <<>>
        THEN Panic(ErrDisk, w)
        ELSE Ok([format |-> format,
                 disk |-> p.disk[1],
                 size |-> UnwrapOr(p.size, ""),
                 mount |-> UnwrapOr(p.mount, <<>>)], w)

\* into_iter().map(|p| p.into()).collect(): in list order, the first panic ends it.
RECURSIVE PartitionsFrom(_)
PartitionsFrom(ps) ==
    IF ps = <<>> THEN Ok(<<>>, <<>>)
    ELSE LET h == PartitionFrom(Head(ps))
         IN  IF ~h.ok THEN h
             ELSE LET t == PartitionsFrom(Tail(ps))
                  IN  IF ~t.ok THEN Panic(t.err, h.warn \o t.warn)
                      ELSE Ok(<<h.val[1]>> \o t.val[1], h.warn \o t.warn)

\* impl From<ParsedUser> for User
UserFrom(u) ==
    IF u.name = <<>> THEN Panic(ErrUsername, <<>>)
    ELSE Ok([name |-> u.name[1],
             groups |-> UnwrapOr(u.groups, <<>>),
             shell |-> UnwrapOr(u.shell, "")], <<>>)

RECURSIVE UsersFrom(_)
UsersFrom(us) ==
    IF us = <<>> THEN Ok(<<>>, <<>>)
    ELSE LET h == UserFrom(Head(us))
         IN  IF ~h.ok THEN h
             ELSE LET t == UsersFrom(Tail(us))
                  IN  IF ~t.ok THEN t ELSE Ok(<<h.val[1]>> \o t.val[1], <<>>)

\* impl From<ParsedInstallOptions> for InstallOptions
InstallOptionsFrom(r) ==
    LET kernel == IF UnwrapOr(r.kernel, "") = "latest" THEN "Latest" ELSE "Lts"
        noLocales == r.locales = <<>> \/ r.locales[1] = <<>>
        locales == IF noLocales THEN <<"en_US.UTF-8">> ELSE r.locales[1]
        w == IF noLocales THEN <<WarnLocales>> ELSE <<>>
    IN  IF ~is_valid_zoneinfo(r.region, r.city) THEN Panic(ErrZoneinfo, w)
        ELSE IF r.hostname = <<>> THEN Panic(ErrHostname, w)
        ELSE IF r.bootloader = <<>> THEN Panic(ErrBootloader, w)
        ELSE IF r.partitions = <<>> THEN Panic(ErrPartitions, w)
        ELSE LET ps == PartitionsFrom(r.partitions[1])
             IN  IF ~ps.ok THEN Panic(ps.err, w \o ps.warn)
                 ELSE LET us == UsersFrom(UnwrapOr(r.users, <<>>))
                      IN  IF ~us.ok THEN Panic(us.err, w \o ps.warn)
                          ELSE Ok([hostname |-> r.hostname[1],
                                   region |-> UnwrapOr(r.region, ""),
                                   city |-> UnwrapOr(r.city, ""),
                                   locales |-> locales,
                                   kernel |-> kernel,
                                   extra |-> UnwrapOr(r.extra, ""),
                                   bootloader |-> r.bootloader[1],
                                   partitions |-> ps.val[1],
                                   users |-> us.val[1]], w \o ps.warn)

-----------------------------------------------------------------------------
\* install.rs: regular expressions

\* The index of the first character at or after i that is not a digit
\* (Len(s) + 1 if there is none): the end of a greedy \d* from i.
RECURSIVE DigitRunEnd(_, _)
DigitRunEnd(s, i) ==
    IF i > Len(s) \/ ~IsDigit(s[i]) THEN i ELSE DigitRunEnd(s, i + 1)

NvmePrefix == <<"/", "d", "e", "v", "/", "n", "v", "m", "e">>

\* The pattern without its namespace part: /dev/nvme\d+ at position i of s.
NvmeMatchesAt_controller_only(s, i) ==
    LET j == i + Len(NvmePrefix)
    IN  /\ j - 1 <= Len(s)
        /\ SubSeq(s, i, j - 1) = NvmePrefix
        /\ DigitRunEnd(s, j) > j

\* Whether /dev/nvme\d+n\d+ matches at position i of s.
NvmeMatchesAt(s, i) ==
    LET j == i + Len(NvmePrefix)
        k == DigitRunEnd(s, j)
    IN  /\ j - 1 <= Len(s)
        /\ SubSeq(s, i, j - 1) = NvmePrefix
        /\ k > j
        /\ k <= Len(s)
        /\ s[k] = "n"
        /\ DigitRunEnd(s, k + 1) > k + 1

\* Regex::new(r"/dev/nvme\d+n\d+").is_match(s): a search, not anchored.
NvmeIsMatch(s) == \E i \in 1..Len(s) : NvmeMatchesAt(s, i)

\* Regex::new(r"\d+$").find(s).map(as_str).unwrap_or(""): the leftmost match,
\* which is the whole run of digits that ends the string.
RECURSIVE TrailingDigits(_)
TrailingDigits(s) ==
    IF s = <<>> \/ ~IsDigit(s[Len(s)]) THEN <<>>
    ELSE TrailingDigits(SubSeq(s, 1, Len(s) - 1)) \o <<s[Len(s)]>>

-----------------------------------------------------------------------------
\* install.rs: impl Partition

\* Partition::fdisk_partition_type
fdisk_partition_type(p) ==
    CASE p.format = "fat32" -> "uefi"
      [] p.format = "swap" -> "swap"
      [] OTHER -> "linux"

\* Partition::get_partition_file: number is 0-based, the file name is 1-based.
get_partition_file(p, number) ==
    LET n == to_string(number + 1)
    IN  <<IF NvmeIsMatch(p.disk) THEN p.disk \o <<"p">> \o n ELSE p.disk \o n>>

\* Partition::fdisk_script_string: the arguments of the format string
\* n\n{number}\n\n{size}\nt{select}\n{type}\n
fdisk_script_string(p, number) ==
    [number |-> number,
     size |-> IF p.size = "" THEN <<>> ELSE <<"+", p.size>>,
     select |-> IF number = 1 THEN <<>> ELSE <<number>>,
     type |-> fdisk_partition_type(p)]

\* Partition::mkfs_cmd
mkfs_cmd(p, number) ==
    LET cmd == CASE p.format = "ext2" -> "mkfs.ext2"
                 [] p.format = "ext3" -> "mkfs.ext3"
                 [] p.format = "ext4" -> "mkfs.ext4"
                 [] p.format = "fat32" -> "mkfs.fat -F 32"
                 [] p.format = "swap" -> "mkswap"
                 [] OTHER -> ""
    IN  IF cmd = "" THEN <<>>
        ELSE <<[cmd |-> cmd, dir |-> <<>>, dev |-> get_partition_file(p, number)[1]]>>

\* mount_cmd with the empty mount path looked at before the swap format.
mount_cmd_mount_path_first(p, number) ==
    IF p.mount = <<>> THEN <<>>
    ELSE IF p.format = "swap"
    THEN <<[cmd |-> "swapon", dir |-> <<>>, dev |-> get_partition_file(p, number)[1]]>>
    ELSE <<[cmd |-> "mkdir -p && mount",
            dir |-> <<"/", "m", "n", "t">> \o p.mount,
            dev |-> get_partition_file(p, number)[1]]>>

\* Partition::mount_cmd
mount_cmd(p, number) ==
    IF p.format = "swap"
    THEN <<[cmd |-> "swapon", dir |-> <<>>, dev |-> get_partition_file(p, number)[1]]>>
    ELSE IF p.mount = <<>> THEN <<>>
    ELSE <<[cmd |-> "mkdir -p && mount",
            dir |-> <<"/", "m", "n", "t">> \o p.mount,
            dev |-> get_partition_file(p, number)[1]]>>

-----------------------------------------------------------------------------
\* install.rs: the layout of partitions on disks

\* Vec::sort on strings (insertion into a sorted prefix)
RECURSIVE InsertSorted(_, _)
InsertSorted(x, s) ==
    IF s = <<>> THEN <<x>>
    ELSE IF StrLess(Head(s), x) \/ Head(s) = x
         THEN <<Head(s)>> \o InsertSorted(x, Tail(s))
         ELSE <<x>> \o s

RECURSIVE Sort(_)
Sort(s) == IF s = <<>> THEN <<>> ELSE InsertSorted(s[Len(s)], Sort(SubSeq(s, 1, Len(s) - 1)))

\* Vec::dedup: drops every element equal to the one before it.
RECURSIVE Dedup(_)
Dedup(s) ==
    IF Len(s) <= 1 THEN s
    ELSE IF s[1] = s[2] THEN Dedup(Tail(s))
    ELSE <<s[1]>> \o Dedup(Tail(s))

\* unique_disks_used without the sort: configuration order.
unique_disks_used_unsorted(o) ==
    Dedup([i \in 1..Len(o.partitions) |-> o.partitions[i].disk])

\* InstallOptions::unique_disks_used
unique_disks_used(o) ==
    Dedup(Sort([i \in 1..Len(o.partitions) |-> o.partitions[i].disk]))

\* InstallOptions::partitions_on_disk
partitions_on_disk(o, disk) ==
    LET OnDisk(x) == x.disk = disk IN SelectSeq(o.partitions, OnDisk)

\* partitions.enumerate(): each partition of one disk with its 0-based index.
EnumerateOnDisk(ps) == [i \in 1..Len(ps) |-> [p |-> ps[i], idx |-> i - 1]]

\* The flattened list with one index running over all partitions instead of
\* one index per disk.
RECURSIVE FlattenDisksFrom(_, _, _)
FlattenDisksFrom(o, disks, start) ==
    IF disks = <<>> THEN <<>>
    ELSE LET ps == partitions_on_disk(o, Head(disks))
         IN  [i \in 1..Len(ps) |-> [p |-> ps[i], idx |-> start + i - 1]]
             \o FlattenDisksFrom(o, Tail(disks), start + Len(ps))

FlattenDisks_global_index(o, disks) == FlattenDisksFrom(o, disks, 0)

\* disks.iter().map(...).flatten(): disk after disk, in the order of disks.
RECURSIVE FlattenDisks(_, _)
FlattenDisks(o, disks) ==
    IF disks = <<>> THEN <<>>
    ELSE EnumerateOnDisk(partitions_on_disk(o, Head(disks)))
         \o FlattenDisks(o, Tail(disks))

\* A call through the function pointer apply: fn(&Partition, u32) -> Option<String>,
\* named by the function it points to.
Apply(apply, p, number) ==
    CASE apply = "Partition::mkfs_cmd" -> mkfs_cmd(p, number)
      [] apply = "Partition::mount_cmd" -> mount_cmd(p, number)
      [] apply = "Partition::get_partition_file" -> get_partition_file(p, number)

\* InstallOptions::map_partitions: (partition, apply(partition, idx)) pairs.
map_partitions(o, apply) ==
    LET f == FlattenDisks(o, unique_disks_used(o))
    IN  [i \in 1..Len(f) |-> [p |-> f[i].p, r |-> Apply(apply, f[i].p, f[i].idx)]]

\* map_snd: the second components that are Some, in order.
RECURSIVE map_snd(_)
map_snd(tuples) ==
    IF tuples = <<>> THEN <<>>
    ELSE Head(tuples).r \o map_snd(Tail(tuples))

\* The body of the while loop of fdisk_cmds: i runs from 1 to partitions.len().
FdiskFragments(ps) == [i \in 1..Len(ps) |-> fdisk_script_string(ps[i], i)]

\* InstallOptions::fdisk_cmds: echo -e "g\n<fragments>\nw" | fdisk <disk>
fdisk_cmds(o) ==
    LET disks == unique_disks_used(o)
    IN  [d \in 1..Len(disks) |->
            [cmd |-> "fdisk",
             disk |-> disks[d],
             label |-> "g",
             frags |-> FdiskFragments(partitions_on_disk(o, disks[d])),
             write |-> "w"]]

-----------------------------------------------------------------------------
\* install.rs: the bootloader

ErrInvalidBootloader == "invalid bootloader"
ErrNoBootPartition == "using efistub, but no boot partition was detected"
ErrNoRootPartition == "using efistub, but no root partition was detected"
ErrIndexOutOfBounds == "index out of bounds"

RootMount == <<"/">>
BootMount == <<"/", "b", "o", "o", "t">>
EfiMount == <<"/", "e", "f", "i">>

\* iter().position(pred), given which elements satisfy pred: the 1-based index
\* of the first that does, 0 if none does.
Position(hits) ==
    IF \E i \in 1..Len(hits) : hits[i]
    THEN CHOOSE i \in 1..Len(hits) : hits[i] /\ \A j \in 1..(i - 1) : ~hits[j]
    ELSE 0

IsBootPair(t) == t.p.mount = BootMount \/ t.p.mount = EfiMount

IsRootPair(t) == t.p.mount = RootMount

\* The efistub arm of install_bootloader: the arguments of the efibootmgr
\* format string.
efistub_cmd(o) ==
    LET lts == IF o.kernel = "Lts" THEN "-lts" ELSE ""
        partitions_and_disks == map_partitions(o, "Partition::get_partition_file")
        b == Position([i \in 1..Len(partitions_and_disks) |->
                           IsBootPair(partitions_and_disks[i])])
        r == Position([i \in 1..Len(partitions_and_disks) |->
                           IsRootPair(partitions_and_disks[i])])
    IN  IF b = 0 THEN Panic(ErrNoBootPartition, <<>>)
        ELSE IF r = 0 THEN Panic(ErrNoRootPartition, <<>>)
        ELSE Ok(<<[cmd |-> "efibootmgr",
                   disk |-> partitions_and_disks[b].p.disk,
                   part |-> TrailingDigits(partitions_and_disks[b].r[1]),
                   label |-> <<"Arch Linux", IF lts = "-lts" THEN " LTS" ELSE "">>,
                   loader |-> <<"/vmlinuz-linux", lts>>,
                   root |-> partitions_and_disks[r].r[1],
                   initrd |-> <<"initramfs-linux", lts, ".img">>]>>, <<>>)

\* install_bootloader with an unknown bootloader passed over in silence.
install_bootloader_ignore_unknown(o) ==
    CASE o.bootloader = "grub" ->
            Ok(<<[cmd |-> "grub-install --target=x86_64-efi --bootloader-id=GRUB --recheck"],
                 [cmd |-> "grub-mkconfig -o /boot/grub/grub.cfg"]>>, <<>>)
      [] o.bootloader = "efistub" -> efistub_cmd(o)
      [] OTHER -> Ok(<<>>, <<>>)

\* InstallOptions::install_bootloader
install_bootloader(o) ==
    CASE o.bootloader = "grub" ->
            Ok(<<[cmd |-> "grub-install --target=x86_64-efi --bootloader-id=GRUB --recheck"],
                 [cmd |-> "grub-mkconfig -o /boot/grub/grub.cfg"]>>, <<>>)
      [] o.bootloader = "efistub" -> efistub_cmd(o)
      [] OTHER -> Panic(ErrInvalidBootloader, <<>>)

-----------------------------------------------------------------------------
\* install.rs: the two scripts

\* echo_status(msg, cmds)
echo_status(msg, cmds) == [msg |-> msg, cmds |-> cmds]

\* InstallOptions::locales_cmd
locales_cmd(o) ==
    <<[cmd |-> "sed", exprs |-> o.locales, file |-> "/etc/locale.gen"],
      [cmd |-> "echo LANG", exprs |-> <<o.locales[1]>>, file |-> "/etc/locale.conf"]>>

\* The locale section with locale-gen before the default language is set.
locale_section_gen_second(o) ==
    <<locales_cmd(o)[1], [cmd |-> "locale-gen", exprs |-> <<>>, file |-> ""],
      locales_cmd(o)[2]>>

\* The locale section of chroot_script: locales_cmd().join, then locale-gen.
locale_section(o) ==
    locales_cmd(o) \o <<[cmd |-> "locale-gen", exprs |-> <<>>, file |-> ""]>>

\* InstallOptions::local_hostname_cmd
local_hostname_cmd(o) ==
    [cmd |-> "cat >/etc/hosts",
     text |-> <<"127.0.0.1 localhost", "::1 localhost", "127.0.1.1", o.hostname>>]

\* InstallOptions::configure_networkmanager
configure_networkmanager ==
    <<[cmd |-> "systemctl enable --now systemd-resolved"],
      [cmd |-> "systemctl enable NetworkManager.service"]>>

\* InstallOptions::packages
packages(o) ==
    <<"base",
      IF o.kernel = "Latest" THEN "linux" ELSE "linux-lts",
      "linux-firmware",
      o.extra,
      IF o.bootloader # "efistub" THEN o.bootloader ELSE "",
      "efibootmgr",
      "networkmanager">>

\* The sections of chroot_script once the bootloader commands are known.
chroot_sections(o, bootloader_cmds) ==
    <<[msg |-> "#!/bin/sh", cmds |-> <<>>],
      echo_status("<chroot> setting timezone...",
                  <<[cmd |-> "ln -sf /usr/share/zoneinfo", text |-> <<o.region, o.city>>],
                    [cmd |-> "hwclock --systohc", text |-> <<>>]>>),
      echo_status("<chroot> configuring locales on target system...",
                  locale_section(o)),
      echo_status("<chroot> setting hostname...",
                  <<[cmd |-> "echo >/etc/hostname", text |-> <<o.hostname>>],
                    local_hostname_cmd(o)>>),
      echo_status("<chroot> configuring networkmanager...",
                  configure_networkmanager),
      echo_status("<chroot> set password for root user (repeats until success):",
                  <<[cmd |-> "while true; do if passwd; then break; fi; done"]>>),
      echo_status("<chroot> setting up bootloader...", bootloader_cmds),
      echo_status("<chroot> exiting...", <<[cmd |-> "exit"]>>)>>

\* slice::swap with 1-based indices
Swap(s, i, j) ==
    [k \in 1..Len(s) |-> IF k = i THEN s[j] ELSE IF k = j THEN s[i] ELSE s[k]]

\* The chroot script with the hostname section before the locale section.
chroot_script_hostname_first(o) ==
    LET b == install_bootloader(o)
    IN  IF ~b.ok THEN b ELSE Ok(Swap(chroot_sections(o, b.val[1]), 3, 4), <<>>)

\* InstallOptions::chroot_script
chroot_script(o) ==
    LET b == install_bootloader(o)
    IN  IF ~b.ok THEN b ELSE Ok(chroot_sections(o, b.val[1]), <<>>)

\* The mount block without the move of the root partition to the front.
mount_section_unordered(o) ==
    LET ps == map_partitions(o, "Partition::mount_cmd")
    IN  IF ps = <<>> THEN Panic(ErrIndexOutOfBounds, <<>>)
        ELSE Ok(map_snd(ps), <<>>)

\* The block of generate_shellscript that orders the mount fragments:
\* position(|(p,_)| p.mount == "/").unwrap_or(0), then ps.swap(0, root_part_ind),
\* which panics on an empty vector.
mount_section(o) ==
    LET ps == map_partitions(o, "Partition::mount_cmd")
        found == Position([i \in 1..Len(ps) |-> IsRootPair(ps[i])])
        root_part_ind == IF found = 0 THEN 1 ELSE found
    IN  IF ps = <<>> THEN Panic(ErrIndexOutOfBounds, <<>>)
        ELSE Ok(map_snd(Swap(ps, 1, root_part_ind)), <<>>)

\* The sections of generate_shellscript once its parts are known.
host_sections(o, mounts, chroot) ==
    <<[msg |-> "#!/bin/sh", cmds |-> <<>>],
      echo_status("<-> synchronizing time with the internet...",
                  <<[cmd |-> "timedatectl set-ntp true"]>>),
      echo_status("<-> creating partitions using fdisk...", fdisk_cmds(o)),
      echo_status("<-> formatting partitions...", map_snd(map_partitions(o, "Partition::mkfs_cmd"))),
      echo_status("<-> mounting partitions...", mounts),
      [msg |-> "", cmds |-> <<[cmd |-> "pacstrap /mnt", pkgs |-> packages(o)]>>],
      echo_status("<-> generating the filesystem table...",
                  <<[cmd |-> "genfstab -U /mnt >> /mnt/etc/fstab"]>>),
      echo_status("<-> creating the arch-chroot script...",
                  <<[cmd |-> "cat <<END_OF_SECOND_SCRIPT > /mnt/jimmy_part2.sh",
                     body |-> chroot],
                    [cmd |-> "chmod +x /mnt/jimmy_part2.sh", body |-> <<>>]>>),
      echo_status("<-> running arch-chroot script...",
                  <<[cmd |-> "arch-chroot /mnt ./jimmy_part2.sh"]>>),
      echo_status("<-> cleanup: removing arch-chroot script...",
                  <<[cmd |-> "rm -f /mnt/jimmy_part2.sh"]>>),
      echo_status("<-> cleanup: unmounting all filesystems on /mnt...",
                  <<[cmd |-> "umount -R /mnt"]>>),
      [msg |-> "", cmds |-> <<[cmd |-> "echo -e '\\n<-> done; you may reboot now"]>>]>>

\* InstallOptions::generate_shellscript: the vec! elements are evaluated in
\* order, so a panic of the mount block comes before one of chroot_script.
generate_shellscript(o) ==
    LET m == mount_section(o)
    IN  IF ~m.ok THEN m
        ELSE LET c == chroot_script(o)
             IN  IF ~c.ok THEN c
                 ELSE Ok(host_sections(o, m.val[1], c.val[1]), <<>>)

-----------------------------------------------------------------------------
\* Inputs: the decoded configurations (ParsedInstallOptions) of each family

SDA == <<"/", "d", "e", "v", "/", "s", "d", "a">>
LOOP1 == <<"/", "d", "e", "v", "/", "l", "o", "o", "p", "1">>
NVME0 == <<"/", "d", "e", "v", "/", "n", "v", "m", "e", "0">>
NVME0N1 == <<"/", "d", "e", "v", "/", "n", "v", "m", "e", "0", "n", "1">>
HomeMount == <<"/", "h", "o", "m", "e">>
RelativeMount == <<"h", "o", "m", "e">>
NestedMount == <<"/", "h", "o", "m", "e", "/", "a">>

None == <<>>

Some(S) == {<<x>> : x \in S}

SeqsUpTo(S, n) == UNION {[1..k -> S] : k \in 0..n}

ParsedPartitions(formats, disks, sizes, mounts) ==
    [format : formats, disk : disks, size : sizes, mount : mounts]

ParsedUsers == {None, <<<<>>>>,
                <<<<[name |-> <<"archie">>, groups |-> <<<<"wheel">>>>, shell |-> None]>>>>,
                <<<<[name |-> None, groups |-> None, shell |-> <<"/bin/bash">>]>>>>}

\* Layouts: which disk, which mount point, swap or not, in every order.
LayoutConfigs ==
    [hostname : {<<"archlinux">>}, region : {<<"Europe">>}, city : {<<"London">>},
     locales : {<<<<"en_US.UTF-8">>>>}, kernel : {<<"latest">>}, extra : {<<"vim">>},
     bootloader : {<<"grub">>}, users : {None},
     partitions : Some(SeqsUpTo(
         ParsedPartitions(Some({"ext4", "swap"}), Some({SDA, NVME0N1}), {None},
                          {None} \cup Some({RootMount, HomeMount})),
         MaxPartsLayout))]

\* Disks: three disks in every order, with partitions of every fdisk type.
DiskProfiles ==
    {[format |-> <<"ext4">>, size |-> None, mount |-> <<RootMount>>],
     [format |-> <<"fat32">>, size |-> <<"512M">>, mount |-> None],
     [format |-> <<"swap">>, size |-> None, mount |-> None],
     [format |-> <<"btrfs">>, size |-> <<"512M">>, mount |-> <<HomeMount>>]}

DisksConfigs ==
    [hostname : {<<"archlinux">>}, region : {<<"Europe">>}, city : {<<"London">>},
     locales : {<<<<"en_US.UTF-8">>>>}, kernel : {<<"latest">>}, extra : {None},
     bootloader : {<<"grub">>}, users : {None},
     partitions : Some(SeqsUpTo(
         {[format |-> pr.format, disk |-> <<d>>, size |-> pr.size, mount |-> pr.mount] :
              d \in {SDA, LOOP1, NVME0N1}, pr \in DiskProfiles},
         MaxPartsDisks))]

\* Mounts: the root, a mount point and a mount point under it, in every order.
MountsConfigs ==
    [hostname : {<<"archlinux">>}, region : {<<"Europe">>}, city : {<<"London">>},
     locales : {<<<<"en_US.UTF-8">>>>}, kernel : {<<"latest">>}, extra : {None},
     bootloader : {<<"grub">>}, users : {None},
     partitions : Some(SeqsUpTo(
         ParsedPartitions({<<"ext4">>}, Some({SDA, NVME0N1}), {None},
                          Some({RootMount, HomeMount, NestedMount})),
         MaxPartsMounts))]

\* Bootloaders: every bootloader and kernel, boot and root partitions on
\* every kind of disk.
BootConfigs ==
    [hostname : {<<"archlinux">>}, region : {<<"Europe">>}, city : {<<"London">>},
     locales : {<<<<"en_US.UTF-8">>>>}, kernel : {None, <<"latest">>}, extra : {None},
     bootloader : Some({"grub", "efistub", "lilo"}), users : {None},
     partitions : Some(SeqsUpTo(
         ParsedPartitions({<<"ext4">>}, Some({SDA, LOOP1, NVME0, NVME0N1}), {None},
                          {None} \cup Some({RootMount, BootMount, EfiMount})),
         MaxPartsBoot))]

\* Validation: every required field present or absent.
ValidateConfigs ==
    [hostname : {None, <<"archlinux">>}, region : {<<"Europe">>},
     city : {None, <<"London">>},
     locales : {None}, kernel : {None}, extra : {None},
     bootloader : {None, <<"grub">>}, users : ParsedUsers,
     partitions : {None} \cup Some(SeqsUpTo(
         ParsedPartitions({None, <<"ext4">>}, {None, <<SDA>>}, {None},
                          {None} \cup Some({RootMount, RelativeMount})),
         MaxPartsValidate))]

\* Scripts: locales, kernels, formats and sizes.
ScriptConfigs ==
    [hostname : {<<"archlinux">>}, region : {<<"UTC">>}, city : {None},
     locales : {None, <<<<>>>>, <<<<"en_US.UTF-8">>>>, <<<<"de_DE.UTF-8", "en_US.UTF-8">>>>},
     kernel : {<<"latest">>, <<"lts">>}, extra : {None},
     bootloader : Some({"grub", "efistub"}), users : {None},
     partitions : Some(SeqsUpTo(
         ParsedPartitions(Some({"", "fat32", "btrfs"}), {<<SDA>>}, {None, <<"512M">>},
                          Some({RootMount, BootMount})),
         MaxPartsScript))]

-----------------------------------------------------------------------------
\* The program: decode (given), validate, generate

InitWith(configs) ==
    /\ raw \in configs
    /\ pc = "parsed"
    /\ opts = None
    /\ script = None
    /\ err = ""
    /\ diag = <<>>

InitLayout == InitWith(LayoutConfigs)

InitDisks == InitWith(DisksConfigs)

InitMounts == InitWith(MountsConfigs)

InitBoot == InitWith(BootConfigs)

InitValidate == InitWith(ValidateConfigs)

InitScript == InitWith(ScriptConfigs)

Init ==
    InitWith(LayoutConfigs \cup DisksConfigs \cup MountsConfigs \cup BootConfigs
             \cup ValidateConfigs \cup ScriptConfigs)

\* InstallOptions::from(raw)
Validate ==
    /\ pc = "parsed"
    /\ LET r == InstallOptionsFrom(raw)
       IN  /\ diag' = r.warn
           /\ opts' = r.val
           /\ err' = r.err
           /\ pc' = IF r.ok THEN "validated" ELSE "aborted"
    /\ UNCHANGED <<raw, script>>

\* options.generate_shellscript()
Generate ==
    /\ pc = "validated"
    /\ LET r == generate_shellscript(opts[1])
       IN  /\ script' = r.val
           /\ err' = r.err
           /\ pc' = IF r.ok THEN "generated" ELSE "aborted"
    /\ UNCHANGED <<raw, opts, diag>>

Next == Validate \/ Generate

Spec == Init /\ [][Next]_vars

SpecLayout == InitLayout /\ [][Next]_vars

SpecDisks == InitDisks /\ [][Next]_vars

SpecMounts == InitMounts /\ [][Next]_vars

SpecBoot == InitBoot /\ [][Next]_vars

SpecValidate == InitValidate /\ [][Next]_vars

SpecScript == InitScript /\ [][Next]_vars

-----------------------------------------------------------------------------
\* What the properties are stated in: the layout a configuration asks for

Validated == opts # None

\* Validation has just produced the InstallOptions.
JustValidated == pc = "validated"

Generated == pc = "generated"

\* The partitions of the validated configuration, in list order.
Parts == opts[1].partitions

\* The number of partition i on its disk: its rank, in list order, among the
\* partitions of the same disk.
NumberOnDisk(ps, i) == Cardinality({j \in 1..i : ps[j].disk = ps[i].disk})

\* The k-th partition of disk d in list order, as an index of the list.
IndexOnDisk(ps, d, k) ==
    CHOOSE i \in 1..Len(ps) : ps[i].disk = d /\ NumberOnDisk(ps, i) = k

CountOnDisk(ps, d) == Cardinality({i \in 1..Len(ps) : ps[i].disk = d})

DisksOf(ps) == {ps[i].disk : i \in 1..Len(ps)}

\* The value of a decimal numeral.
DigitValue(c) == (CHOOSE i \in 1..Len(Digits) : Digits[i] = c) - 1

RECURSIVE NumeralValue(_)
NumeralValue(s) ==
    IF s = <<>> THEN 0
    ELSE 10 * NumeralValue(SubSeq(s, 1, Len(s) - 1)) + DigitValue(s[Len(s)])

\* s is the decimal numeral of n: digits only, no leading zero, value n.
IsNumeralOf(s, n) ==
    /\ s # <<>>
    /\ \A i \in 1..Len(s) : IsDigit(s[i])
    /\ Len(s) > 1 => s[1] # "0"
    /\ NumeralValue(s) = n

AllDigits(s, from, to) == from <= to /\ \A i \in from..to : IsDigit(s[i])

\* A disk path of the controller-namespace family: it holds /dev/nvme<N>n<M>.
IsNvmeDisk(d) ==
    \E i \in 1..Len(d) :
        /\ i + 8 <= Len(d)
        /\ SubSeq(d, i, i + 8) = <<"/", "d", "e", "v", "/", "n", "v", "m", "e">>
        /\ \E j \in (i + 10)..Len(d) :
              /\ AllDigits(d, i + 9, j - 1)
              /\ d[j] = "n"
              /\ \E k \in (j + 1)..Len(d) : AllDigits(d, j + 1, k)

\* path is the device path of partition number n of disk d.
IsDeviceOf(path, d, n) ==
    LET rest == SubSeq(path, Len(d) + 1, Len(path))
    IN  /\ Len(path) > Len(d)
        /\ SubSeq(path, 1, Len(d)) = d
        /\ IF IsNvmeDisk(d)
           THEN rest[1] = "p" /\ IsNumeralOf(Tail(rest), n)
           ELSE IsNumeralOf(rest, n)

\* The sections of the generated script and of the chroot script in it.
HostScript == script[1]

FdiskBlocks == HostScript[3].cmds

FormatCmds == HostScript[4].cmds

MountCmds == HostScript[5].cmds

ChrootScript == HostScript[8].cmds[1].body

\* The fdisk block of disk d.
BlockOf(blocks, d) == blocks[CHOOSE b \in 1..Len(blocks) : blocks[b].disk = d]

\* The entries of a flattened list that belong to disk d, in order.
OnDisk(f, d) == LET Is(t) == t.p.disk = d IN SelectSeq(f, Is)

-----------------------------------------------------------------------------
\* In the fdisk block of disk d and in the entries of the flattened list f on
\* disk d, the n-th is the n-th partition of d in list order, with number n.
C1_NumberedWith(o, f, d) ==
    LET ps == o.partitions
        k == CountOnDisk(ps, d)
        block == BlockOf(fdisk_cmds(o), d)
        sub == OnDisk(f, d)
    IN  /\ Len(block.frags) = k
        /\ Len(sub) = k
        /\ \A n \in 1..k :
              LET part == ps[IndexOnDisk(ps, d, n)]
              IN  /\ block.frags[n].number = n
                  /\ block.frags[n].type = fdisk_partition_type(part)
                  /\ sub[n].p = part
                  /\ sub[n].r # None => IsDeviceOf(sub[n].r[1], d, n)

\* C1: on every disk the partitions are numbered 1, 2, ..., k in list order
\* (never by an index over all partitions), and the number of a partition in
\* its fdisk fragment is the number that ends its device path in the format,
\* mount and bootloader lists.
C1_PerDiskNumbers ==
    JustValidated =>
        \A d \in DisksOf(Parts) :
            /\ C1_NumberedWith(opts[1], map_partitions(opts[1], "Partition::get_partition_file"), d)
            /\ LET files == OnDisk(map_partitions(opts[1], "Partition::get_partition_file"), d)
                   mkfs == OnDisk(map_partitions(opts[1], "Partition::mkfs_cmd"), d)
                   mount == OnDisk(map_partitions(opts[1], "Partition::mount_cmd"), d)
               IN  \A n \in 1..CountOnDisk(Parts, d) :
                      /\ mkfs[n].r # None => mkfs[n].r[1].dev = files[n].r[1]
                      /\ mount[n].r # None => mount[n].r[1].dev = files[n].r[1]

\* A script was generated for three partitions of which the first and the
\* third share a disk: the third is number 2 on its disk.
C1_Witness ==
    /\ Generated
    /\ Len(Parts) = 3
    /\ Parts[1].disk = Parts[3].disk
    /\ Parts[2].disk # Parts[1].disk
    /\ NumberOnDisk(Parts, 3) = 2

-----------------------------------------------------------------------------
\* c is the mount fragment of partition i: swapon for swap, mkdir and mount
\* under /mnt otherwise, on the device of the partition.
C2_IsMountFragmentOf(c, ps, i) ==
    /\ IsDeviceOf(c.dev, ps[i].disk, NumberOnDisk(ps, i))
    /\ IF ps[i].format = "swap"
       THEN c.cmd = "swapon"
       ELSE c.cmd = "mkdir -p && mount" /\ c.dir = <<"/", "m", "n", "t">> \o ps[i].mount

\* C2: whenever some partition is mounted at "/", the first fragment of the
\* mount section of the generated script is the mount fragment of a root
\* partition, whatever the order of the partitions and their disks.
C2_RootMountedFirst ==
    (Generated /\ \E i \in 1..Len(Parts) : Parts[i].mount = RootMount) =>
        /\ MountCmds # <<>>
        /\ \E i \in 1..Len(Parts) :
              /\ Parts[i].mount = RootMount
              /\ C2_IsMountFragmentOf(MountCmds[1], Parts, i)

\* A script was generated where the root partition is the last of three in the
\* flattened list, behind a partition with no mount fragment and a swap
\* partition.
C2_Witness ==
    /\ Generated
    /\ LET f == map_partitions(opts[1], "Partition::mount_cmd")
       IN  /\ Len(f) = 3
           /\ f[3].p.mount = RootMount
           /\ f[1].r = None
           /\ f[2].p.format = "swap" /\ f[2].p.mount # RootMount

-----------------------------------------------------------------------------
\* The command of the bootloader section of the chroot script
BootloaderCmds == ChrootScript[7].cmds

IsBootPartition(p) == p.mount = BootMount \/ p.mount = EfiMount

\* C3: with efistub, a boot partition and a root partition, the efibootmgr
\* command names the boot partition's disk, the boot partition's number on
\* that disk (whatever the disk is called), the device path of the root
\* partition, and carries the LTS suffixes exactly for the Lts kernel.
C3_EfistubCommand ==
    (Generated /\ opts[1].bootloader = "efistub") =>
        LET c == BootloaderCmds[1]
            lts == opts[1].kernel = "Lts"
        IN  /\ Len(BootloaderCmds) = 1
            /\ c.cmd = "efibootmgr"
            /\ \E b \in 1..Len(Parts) :
                  /\ IsBootPartition(Parts[b])
                  /\ c.disk = Parts[b].disk
                  /\ AllDigits(c.part, 1, Len(c.part))
                  /\ NumeralValue(c.part) = NumberOnDisk(Parts, b)
            /\ \E r \in 1..Len(Parts) :
                  /\ Parts[r].mount = RootMount
                  /\ IsDeviceOf(c.root, Parts[r].disk, NumberOnDisk(Parts, r))
            /\ c.label = <<"Arch Linux", IF lts THEN " LTS" ELSE "">>
            /\ c.loader = <<"/vmlinuz-linux", IF lts THEN "-lts" ELSE "">>
            /\ c.initrd = <<"initramfs-linux", IF lts THEN "-lts" ELSE "", ".img">>

-----------------------------------------------------------------------------
\* The device path of a disk and a partition numeral.
C4_PathOf(d, numeral) == IF IsNvmeDisk(d) THEN d \o <<"p">> \o numeral ELSE d \o numeral

\* C4: the device path of partition n of a disk is <disk>p<n> if the disk is
\* of the controller-namespace family (/dev/nvme<N>n<M>) and <disk><n> for
\* every other disk; /dev/nvme0n1 gives /dev/nvme0n1p1, /dev/sda gives /dev/sda1.
C4_DevicePaths ==
    JustValidated =>
        \A d \in DisksOf(Parts) :
            LET sub == OnDisk(map_partitions(opts[1], "Partition::get_partition_file"), d)
            IN  /\ Len(sub) = CountOnDisk(Parts, d)
                /\ \A n \in 1..Len(sub) :
                      \E len \in 1..Len(sub[n].r[1]) :
                          LET path == sub[n].r[1]
                              numeral == SubSeq(path, Len(path) - len + 1, Len(path))
                          IN  /\ IsNumeralOf(numeral, n)
                              /\ path = C4_PathOf(d, numeral)
                /\ d = NVME0N1 => sub[1].r[1] = NVME0N1 \o <<"p", "1">>
                /\ d = SDA => sub[1].r[1] = SDA \o <<"1">>

\* A script was generated for a partition on /dev/nvme0n1 and one on a disk
\* whose name ends in a digit without being of that family.
C4_Witness ==
    /\ Generated
    /\ \E i, j \in 1..Len(Parts) :
          /\ Parts[i].disk = NVME0N1
          /\ Parts[j].disk \in {LOOP1, NVME0}
          /\ \E k \in 1..Len(FormatCmds) : FormatCmds[k].dev = NVME0N1 \o <<"p", "1">>

-----------------------------------------------------------------------------
\* Validation has run and ended in a fatal error: there are no InstallOptions.
ValidationAborted == pc = "aborted" /\ opts = None

\* C5: validation is fatal, and yields no InstallOptions, when the partitions
\* field is absent or present but empty; so the partition sequence of every
\* InstallOptions is non-empty.
C5_NoPartitionsIsFatal ==
    /\ (pc # "parsed" /\ (raw.partitions = None \/ raw.partitions = <<<<>>>>))
          => ValidationAborted
    /\ Validated => Parts # <<>>

-----------------------------------------------------------------------------
\* The fatal constraints a decoded configuration violates, as the errors they
\* are reported with, in a given order of precedence.
HasRelativeMount(p) ==
    /\ p.mount # None
    /\ p.mount[1] # <<>>
    /\ p.mount[1][1] # "/"

PartitionViolations(p, diskFirst) ==
    LET disk == IF p.disk = None THEN <<ErrDisk>> ELSE <<>>
        mount == IF HasRelativeMount(p) THEN <<ErrRelativeMount>> ELSE <<>>
    IN  IF diskFirst THEN disk \o mount ELSE mount \o disk

RECURSIVE PartitionListViolations(_, _)
PartitionListViolations(ps, diskFirst) ==
    IF ps = <<>> THEN <<>>
    ELSE PartitionViolations(Head(ps), diskFirst)
         \o PartitionListViolations(Tail(ps), diskFirst)

Violations(r, diskFirst) ==
    (IF <<UnwrapOr(r.region, ""), r.city>> \notin ZoneinfoFiles
        THEN <<ErrZoneinfo>> ELSE <<>>)
    \o (IF r.hostname = None THEN <<ErrHostname>> ELSE <<>>)
    \o (IF r.bootloader = None THEN <<ErrBootloader>> ELSE <<>>)
    \o (IF r.partitions = None \/ r.partitions = <<<<>>>> THEN <<ErrPartitions>> ELSE <<>>)
    \o (IF r.partitions = None THEN <<>>
        ELSE PartitionListViolations(r.partitions[1], diskFirst))

FirstViolationReported(diskFirst) ==
    (pc # "parsed" /\ Len(Violations(raw, diskFirst)) >= 2) =>
        /\ ValidationAborted
        /\ err = Violations(raw, diskFirst)[1]

\* C6 as claimed: of several violated constraints the one reported is the
\* first in the order timezone, hostname, bootloader, partitions, then per
\* partition in list order with the absent disk before the relative mount path.
C6_ClaimedPrecedence == FirstViolationReported(TRUE)

\* C6 as amended: the same order, but within one partition the relative mount
\* path comes before the absent disk.
C6_CodePrecedence == FirstViolationReported(FALSE)

\* Validation aborted on a partition that has neither a disk nor an absolute
\* mount path, with nothing violated before it.
C6_Witness ==
    /\ ValidationAborted
    /\ raw.partitions # None
    /\ Len(raw.partitions[1]) = 2
    /\ raw.partitions[1][2].disk = None
    /\ HasRelativeMount(raw.partitions[1][2])
    /\ Violations(raw, FALSE) = <<ErrRelativeMount, ErrDisk>>
    /\ err = ErrRelativeMount

-----------------------------------------------------------------------------
\* The locale section of the chroot script, with locale-gen at position gen
\* and the default-language command at position lang.
LocaleSection == ChrootScript[3].cmds

LocalePhaseIs(gen, lang) ==
    /\ Len(LocaleSection) = 3
    /\ LocaleSection[1] = [cmd |-> "sed", exprs |-> opts[1].locales, file |-> "/etc/locale.gen"]
    /\ LocaleSection[gen].cmd = "locale-gen"
    /\ LocaleSection[lang] = [cmd |-> "echo LANG", exprs |-> <<opts[1].locales[1]>>,
                              file |-> "/etc/locale.conf"]
    /\ (raw.locales # None /\ raw.locales[1] # <<>>) => opts[1].locales = raw.locales[1]

\* C7 as claimed: the locale phase is the sed command over every locale, then
\* locale-gen, then LANG set to the first locale.
C7_ClaimedLocaleOrder == Generated => LocalePhaseIs(2, 3)

\* C7 as amended: the sed command over every locale, then LANG set to the
\* first locale, then locale-gen.
C7_CodeLocaleOrder == Generated => LocalePhaseIs(3, 2)

\* A script was generated for two configured locales.
C7_Witness ==
    /\ Generated
    /\ raw.locales # None
    /\ Len(raw.locales[1]) = 2
    /\ Len(LocaleSection[1].exprs) = 2
    /\ LocaleSection[2].exprs = <<raw.locales[1][1]>>

-----------------------------------------------------------------------------
\* The commands of a script, section after section.
RECURSIVE CmdNames(_)
CmdNames(sections) ==
    IF sections = <<>> THEN <<>>
    ELSE [i \in 1..Len(Head(sections).cmds) |-> Head(sections).cmds[i].cmd]
         \o CmdNames(Tail(sections))

\* The phase a command of the host script belongs to, 0 for the commands
\* outside the phases named (time synchronisation, cleanup, final message).
HostPhase(cmd) ==
    CASE cmd = "fdisk" -> 1
      [] cmd \in {"mkfs.ext2", "mkfs.ext3", "mkfs.ext4", "mkfs.fat -F 32", "mkswap"} -> 2
      [] cmd \in {"swapon", "mkdir -p && mount"} -> 3
      [] cmd = "pacstrap /mnt" -> 4
      [] cmd = "genfstab -U /mnt >> /mnt/etc/fstab" -> 5
      [] cmd \in {"cat <<END_OF_SECOND_SCRIPT > /mnt/jimmy_part2.sh",
                  "chmod +x /mnt/jimmy_part2.sh"} -> 6
      [] cmd = "arch-chroot /mnt ./jimmy_part2.sh" -> 7
      [] OTHER -> 0

\* The phase a command of the chroot script belongs to.
ChrootPhase(cmd) ==
    CASE cmd \in {"ln -sf /usr/share/zoneinfo", "hwclock --systohc"} -> 1
      [] cmd \in {"sed", "echo LANG", "locale-gen"} -> 2
      [] cmd \in {"echo >/etc/hostname", "cat >/etc/hosts"} -> 3
      [] cmd \in {"systemctl enable --now systemd-resolved",
                  "systemctl enable NetworkManager.service"} -> 4
      [] cmd = "while true; do if passwd; then break; fi; done" -> 5
      [] cmd \in {"grub-install --target=x86_64-efi --bootloader-id=GRUB --recheck",
                  "grub-mkconfig -o /boot/grub/grub.cfg", "efibootmgr"} -> 6
      [] cmd = "exit" -> 7
      [] OTHER -> 0

\* The phases of a command list never go back, and every phase of present
\* is there.
InPhaseOrder(phases, present) ==
    /\ \A i, j \in 1..Len(phases) :
          (i < j /\ phases[i] > 0 /\ phases[j] > 0) => phases[i] <= phases[j]
    /\ \A ph \in present : \E i \in 1..Len(phases) : phases[i] = ph

\* C8: in every generated script the host stage runs partitioning,
\* formatting, mounting, package installation, fstab generation, writing the
\* chroot script, running it, and the chroot stage runs timezone, locales,
\* hostname, network, root password, bootloader, exit, in this order whatever
\* the configuration.
C8_PhaseOrder ==
    Generated =>
        LET host == CmdNames(HostScript)
            chroot == CmdNames(ChrootScript)
        IN  /\ InPhaseOrder([i \in 1..Len(host) |-> HostPhase(host[i])],
                            {1, 3, 4, 5, 6, 7}
                              \cup (IF map_snd(map_partitions(opts[1], "Partition::mkfs_cmd")) # <<>>
                                    THEN {2} ELSE {}))
            /\ InPhaseOrder([i \in 1..Len(chroot) |-> ChrootPhase(chroot[i])], 1..7)
            /\ \A i \in 1..Len(chroot) : ChrootPhase(chroot[i]) > 0

\* A script was generated for efistub with an LTS kernel, one formatted and
\* one unformatted partition.
C8_Witness ==
    /\ Generated
    /\ opts[1].bootloader = "efistub"
    /\ opts[1].kernel = "Lts"
    /\ Len(FormatCmds) = 1
    /\ Len(MountCmds) = 2

-----------------------------------------------------------------------------
\* Script generation has run.
GenerationEnded == Validated /\ pc \in {"generated", "aborted"}

NoScript == pc = "aborted" /\ script = None

\* C9: generation aborts and returns no script when the bootloader is neither
\* grub nor efistub, and when it is efistub and no partition is mounted at
\* /boot or /efi or none at /; grub asks for neither partition.
C9_BootloaderErrors ==
    GenerationEnded =>
        LET o == opts[1]
            hasBoot == \E i \in 1..Len(Parts) : IsBootPartition(Parts[i])
            hasRoot == \E i \in 1..Len(Parts) : Parts[i].mount = RootMount
        IN  /\ o.bootloader \notin {"grub", "efistub"} => NoScript
            /\ (o.bootloader = "efistub" /\ (~hasBoot \/ ~hasRoot)) => NoScript
            /\ o.bootloader = "grub" =>
                  /\ err \notin {ErrInvalidBootloader, ErrNoBootPartition, ErrNoRootPartition}
                  /\ Parts # <<>> => (Generated /\ script # None)
            /\ (pc = "aborted" /\ Parts # <<>>) =>
                  err = (IF o.bootloader # "efistub" THEN ErrInvalidBootloader
                         ELSE IF ~hasBoot THEN ErrNoBootPartition
                         ELSE ErrNoRootPartition)
            /\ pc = "aborted" => script = None

\* Generation aborted for efistub with a boot partition and no root partition.
C9_Witness ==
    /\ GenerationEnded
    /\ opts[1].bootloader = "efistub"
    /\ \E i \in 1..Len(Parts) : IsBootPartition(Parts[i])
    /\ NoScript
    /\ err = ErrNoRootPartition

-----------------------------------------------------------------------------
\* Byte-wise lexicographic order of two different strings.
LexLess(a, b) ==
    \E k \in 1..Len(b) :
        /\ k - 1 <= Len(a)
        /\ SubSeq(a, 1, k - 1) = SubSeq(b, 1, k - 1)
        /\ (k - 1 = Len(a) \/ ByteOf(a[k]) < ByteOf(b[k]))

\* f lists every partition once: disks in lexicographic order, and the
\* partitions of one disk in list order.
InLayoutOrder(f) ==
    /\ Len(f) = Len(Parts)
    /\ \A i, j \in 1..Len(f) :
          i < j => (f[i].p.disk = f[j].p.disk \/ LexLess(f[i].p.disk, f[j].p.disk))
    /\ \A d \in DisksOf(Parts) :
          LET sub == OnDisk(f, d)
          IN  /\ Len(sub) = CountOnDisk(Parts, d)
              /\ \A n \in 1..Len(sub) : sub[n].p = Parts[IndexOnDisk(Parts, d, n)]

\* C10: one fdisk block per distinct disk, blocks in lexicographic order of
\* the disk path, each block holding the fragments of its disk's partitions
\* once each in increasing number order and then the write instruction; the
\* flattened format and mount lists follow the same order.
C10_BlocksPerDisk ==
    Generated =>
        /\ Len(FdiskBlocks) = Cardinality(DisksOf(Parts))
        /\ {FdiskBlocks[b].disk : b \in 1..Len(FdiskBlocks)} = DisksOf(Parts)
        /\ \A b, c \in 1..Len(FdiskBlocks) :
              b < c => LexLess(FdiskBlocks[b].disk, FdiskBlocks[c].disk)
        /\ \A b \in 1..Len(FdiskBlocks) :
              LET d == FdiskBlocks[b].disk
                  frags == FdiskBlocks[b].frags
              IN  /\ FdiskBlocks[b].write = "w"
                  /\ Len(frags) = CountOnDisk(Parts, d)
                  /\ \A n \in 1..Len(frags) :
                        frags[n] = fdisk_script_string(Parts[IndexOnDisk(Parts, d, n)], n)
        /\ InLayoutOrder(map_partitions(opts[1], "Partition::mkfs_cmd"))
        /\ InLayoutOrder(map_partitions(opts[1], "Partition::mount_cmd"))
        /\ FormatCmds = map_snd(map_partitions(opts[1], "Partition::mkfs_cmd"))

\* A script was generated for partitions on /dev/sda, /dev/nvme0n1 and
\* /dev/loop1, listed in this order: the blocks come in the opposite order.
C10_Witness ==
    /\ Generated
    /\ [i \in 1..Len(Parts) |-> Parts[i].disk] = <<SDA, NVME0N1, LOOP1>>
    /\ [b \in 1..Len(FdiskBlocks) |-> FdiskBlocks[b].disk] = <<LOOP1, NVME0N1, SDA>>

-----------------------------------------------------------------------------
\* The partitions that get a mount fragment: swap, or a mount path.
IsMounted(p) == p.format = "swap" \/ p.mount # <<>>

\* r is what the mount fragment of partition p, number n on its disk, must be:
\* swapon on the device and no directory for swap, nothing for an empty mount
\* path, mkdir and mount of the device at the path under /mnt otherwise.
IsMountFragmentFor(r, p, n) ==
    IF p.format = "swap"
    THEN /\ Len(r) = 1
         /\ r[1].cmd = "swapon"
         /\ r[1].dir = <<>>
         /\ IsDeviceOf(r[1].dev, p.disk, n)
    ELSE IF p.mount = <<>>
    THEN r = None
    ELSE /\ Len(r) = 1
         /\ r[1].cmd = "mkdir -p && mount"
         /\ r[1].dir = <<"/", "m", "n", "t">> \o p.mount
         /\ IsDeviceOf(r[1].dev, p.disk, n)

\* C11: the mount fragment of a partition is a single swapon on its device
\* for swap, whatever its mount field; nothing for a non-swap partition with
\* an empty mount path; otherwise mkdir and mount of its device at the mount
\* path under /mnt.  The mount section has as many fragments as there are
\* partitions that are swap or have a mount path.
C11_MountFragments ==
    Generated =>
        LET f == map_partitions(opts[1], "Partition::mount_cmd")
        IN  /\ \A d \in DisksOf(Parts) :
                  LET sub == OnDisk(f, d)
                  IN  \A n \in 1..Len(sub) : IsMountFragmentFor(sub[n].r, sub[n].p, n)
            /\ Len(MountCmds) = Cardinality({i \in 1..Len(Parts) : IsMounted(Parts[i])})
            /\ {MountCmds[i] : i \in 1..Len(MountCmds)}
                  = {f[i].r[1] : i \in {j \in 1..Len(f) : f[j].r # None}}

\* A script was generated for a swap partition with a mount path, a swap
\* partition without one and an ext4 partition without one: two fragments,
\* both swapon.
C11_Witness ==
    /\ Generated
    /\ Len(Parts) = 3
    /\ Parts[1].format = "swap" /\ Parts[1].mount = HomeMount
    /\ Parts[2].format = "swap" /\ Parts[2].mount = <<>>
    /\ Parts[3].format = "ext4" /\ Parts[3].mount = <<>>
    /\ Len(MountCmds) = 2
    /\ \A i \in 1..2 : MountCmds[i].cmd = "swapon"

-----------------------------------------------------------------------------
\* The fragments of the flattened mount list, in its order: disks in
\* lexicographic order, then partition number.
FlattenedMountCmds == map_snd(map_partitions(opts[1], "Partition::mount_cmd"))

\* A fragment that mounts a root partition.
IsRootFragment(c) == c.cmd # "swapon" /\ c.dir = <<"/", "m", "n", "t">> \o RootMount

\* s without its first root fragment, the one moved to the front.
WithoutRootFragment(s) ==
    IF \E i \in 1..Len(s) : IsRootFragment(s[i])
    THEN LET r == CHOOSE i \in 1..Len(s) :
                      /\ IsRootFragment(s[i])
                      /\ \A k \in 1..(i - 1) : ~IsRootFragment(s[k])
         IN  SubSeq(s, 1, r - 1) \o SubSeq(s, r + 1, Len(s))
    ELSE s

\* Mount point m is a directory above mount point c, other than the root.
IsParentMount(m, c) ==
    /\ m # RootMount
    /\ m # <<>>
    /\ Len(m) < Len(c)
    /\ SubSeq(c, 1, Len(m)) = m
    /\ c[Len(m) + 1] = "/"

\* C12: moving the root fragment to the front changes nothing else: the other
\* fragments of the mount section keep the relative order they have in the
\* flattened list (disks in lexicographic order, then partition number), so a
\* mount point listed after its parent mount point on the same disk is still
\* mounted after that parent.
C12_OthersKeepOrder ==
    Generated =>
        /\ WithoutRootFragment(MountCmds) = WithoutRootFragment(FlattenedMountCmds)
        /\ \A i, j \in 1..Len(Parts) :
              (/\ i < j
               /\ Parts[i].disk = Parts[j].disk
               /\ Parts[i].format # "swap"
               /\ Parts[j].format # "swap"
               /\ IsParentMount(Parts[i].mount, Parts[j].mount))
              => \E a, b \in 1..Len(MountCmds) :
                    /\ a < b
                    /\ C2_IsMountFragmentOf(MountCmds[a], Parts, i)
                    /\ C2_IsMountFragmentOf(MountCmds[b], Parts, j)

====
